---- MODULE Spec2Model ----
(***************************************************************************)
(* Hybrid retrieval of vacancies: the candidate query of src/api/main.py   *)
(* and src/scripts/ask_cli.py (SQL_V2_WITH_TRGM / SQL_V2_NO_TRGM), the     *)
(* grouping loop of retrieve_vacancies / retrieve, and the /search         *)
(* handler and the console main that call them.                            *)
(*                                                                         *)
(* Distances, similarities and weights are integers (exact arithmetic in   *)
(* some fixed unit).  The query text is fixed: a chunk's dist and kw_sim   *)
(* are the values the two SQL expressions take for that query.             *)
(* Where SQL leaves an order or a LIMIT cut unspecified (equal sort keys), *)
(* the model takes every order the query may produce.                      *)
(*                                                                         *)
(* The text utilities of both modules (normalize_ws, extract_query_keywords,*)
(* extract_tech_terms, highlight, the truncation of a quote) are operators *)
(* on sequences of characters; SpecText applies them to bounded inputs.    *)
(*                                                                         *)
(* Requests served side by side (SpecConc), a request waiting for the      *)
(* embedder or the storage (SpecHang), and the scripts that fill the       *)
(* tables (SpecEnrich: enrich_hh_details, SpecChunk: chunk_text,           *)
(* SpecPipeline: build_chunks and embed_chunks) each have their own        *)
(* variable and their own specification.                                   *)
(***************************************************************************)
EXTENDS Integers, Sequences, FiniteSets, TLC

\* ---- bounds of the explored stores and requests ----
MaxVac == 2
MaxChunks == 3
MaxDist == 1
MaxSim == 1
MaxWeight == 2
MaxK == 2
MaxPerVac == 2
MaxCand == 3

VARIABLES
    store,      \* vacancy_chunks joined with vacancies: a set of chunk rows
    pg_trgm,    \* whether pg_extension holds 'pg_trgm'
    pc,         \* "idle" | "done" | "failed"
    req,        \* the request being served
    scored,     \* the rows of the CTE scored (the candidate pool)
    rows,       \* cur.fetchall()
    ret,        \* what retrieve_vacancies / retrieve returned
    response,   \* what the handler returned / printed
    failure,    \* the call that raised: "none" | "embed" | "probe" | "query"
    call,       \* a call of one of the text utilities: the function, its arguments
    result,     \* what that call returned
    inv,        \* the locals of the requests being served at the same time
    chunking,   \* the locals of a call of chunk_text
    pipeline,   \* the tables vacancies and vacancy_chunks under the scripts
    enrich      \* the locals of a run of enrich_hh_details

vars == <<store, pg_trgm, pc, req, scored, rows, ret, response, failure, call, result,
          inv, chunking, pipeline, enrich>>
scriptVars == <<inv, chunking, pipeline, enrich>>

Vacancies == 1..MaxVac
None == [kind |-> "none"]

\* ---------------------------------------------------------------------
\* Stores
\* ---------------------------------------------------------------------
RECURSIVE SumTo(_, _)
SumTo(f, n) == IF n = 0 THEN 0 ELSE f[n] + SumTo(f, n - 1)

\* chunk counts per vacancy; chunk_no runs 0..n-1 (build_chunks enumerates)
ChunkCounts == {cnt \in [Vacancies -> 0..MaxChunks] : SumTo(cnt, MaxVac) <= MaxChunks}

ChunkKeys(cnt) == {kk \in Vacancies \X (0..(MaxChunks - 1)) : kk[2] < cnt[kk[1]]}

\* a chunk's embedding is null, or it has a distance to the query vector;
\* the similarity of a chunk without embedding is never read (kept 0)
ChunkValues ==
    {[embedded |-> FALSE, dist |-> 0, kw_sim |-> 0]}
    \cup {[embedded |-> TRUE, dist |-> d, kw_sim |-> s] : d \in 0..MaxDist, s \in 0..MaxSim}

ChunkRow(kk, v) ==
    [vacancy_id |-> kk[1], chunk_no |-> kk[2],
     embedded |-> v.embedded, dist |-> v.dist, kw_sim |-> v.kw_sim]

\* ---------------------------------------------------------------------
\* SQL: order by ... limit n, with every admissible cut among equal keys
\* ---------------------------------------------------------------------
Min2(a, b) == IF a <= b THEN a ELSE b

LimitSets(S, key, n) ==
    {T \in SUBSET S :
        /\ Cardinality(T) = Min2(n, Cardinality(S))
        /\ \A t \in T : \A s \in S \ T : key[t] <= key[s]}

\* ---------------------------------------------------------------------
\* CTE scored
\* ---------------------------------------------------------------------
\* variant: the weight left out of the score
ScoredRowTrgmUnweighted(c, w) ==
    [vacancy_id |-> c.vacancy_id, chunk_no |-> c.chunk_no,
     dist |-> c.dist, kw_sim |-> c.kw_sim, score |-> c.dist - c.kw_sim]

ScoredRowTrgm(c, w) ==
    [vacancy_id |-> c.vacancy_id, chunk_no |-> c.chunk_no,
     dist |-> c.dist, kw_sim |-> c.kw_sim, score |-> c.dist - w * c.kw_sim]

ScoredRowNoTrgm(c) ==
    [vacancy_id |-> c.vacancy_id, chunk_no |-> c.chunk_no,
     dist |-> c.dist, kw_sim |-> 0, score |-> c.dist]

DistKey(S) == [r \in S |-> r.dist]

\* variant: scored without "where c.embedding is not null"
ScoredSetsNoFilter(st, hybrid, w, candidates) ==
    LET all == {IF hybrid THEN ScoredRowTrgm(c, w) ELSE ScoredRowNoTrgm(c) : c \in st}
    IN  LimitSets(all, DistKey(all), candidates)

\* where c.embedding is not null order by c.embedding <=> q limit candidates
ScoredSets(st, hybrid, w, candidates) ==
    LET emb == {c \in st : c.embedded}
        all == {IF hybrid THEN ScoredRowTrgm(c, w) ELSE ScoredRowNoTrgm(c) : c \in emb}
    IN  LimitSets(all, DistKey(all), candidates)

\* ---------------------------------------------------------------------
\* CTE ranked: row_number() and min(score) over (partition by vacancy_id)
\* ---------------------------------------------------------------------
Partition(pool, v) == {r \in pool : r.vacancy_id = v}

MinScore(S) == CHOOSE m \in {r.score : r \in S} : \A r \in S : m <= r.score

\* variant: row_number() over (partition by vacancy_id), no order by score
RECURSIVE WindowOrdersUnordered(_)
WindowOrdersUnordered(S) ==
    IF S = {} THEN {<<>>}
    ELSE UNION {{<<x>> \o sq : sq \in WindowOrdersUnordered(S \ {x})} : x \in S}

\* the orders in which a window may number the rows of one partition:
\* ascending in score, rows of equal score in any order
RECURSIVE WindowOrders(_)
WindowOrders(S) ==
    IF S = {} THEN {<<>>}
    ELSE UNION {{<<x>> \o sq : sq \in WindowOrders(S \ {x})} :
                   x \in {y \in S : \A z \in S : y.score <= z.score}}

\* the admissible row numberings: per partition, the position of the row
\* in one of the partition's window orders
RowNumberings(pool) ==
    LET vids == {r.vacancy_id : r \in pool}
        orders == [v \in vids |-> WindowOrders(Partition(pool, v))]
        choices == {c \in [vids -> UNION {orders[v] : v \in vids}] :
                       \A v \in vids : c[v] \in orders[v]}
    IN  {[r \in pool |->
             CHOOSE i \in 1..Len(c[r.vacancy_id]) : c[r.vacancy_id][i] = r] :
         c \in choices}

\* variant: max(score) over (partition by vacancy_id)
BestScoreMax(pool, r) ==
    LET S == Partition(pool, r.vacancy_id) IN
    CHOOSE m \in {x.score : x \in S} : \A x \in S : m >= x.score

BestScore(pool, r) == MinScore(Partition(pool, r.vacancy_id))

RankedRow(pool, rn, r) ==
    [vacancy_id |-> r.vacancy_id, chunk_no |-> r.chunk_no, dist |-> r.dist,
     kw_sim |-> r.kw_sim, score |-> r.score, rn |-> rn[r],
     best_score |-> BestScore(pool, r)]

RankedSets(pool) == {{RankedRow(pool, rn, r) : r \in pool} : rn \in RowNumberings(pool)}

\* ---------------------------------------------------------------------
\* CTE top_vacs: select distinct vacancy_id, ..., best_score
\*               order by best_score asc limit k
\* ---------------------------------------------------------------------
BestKey(S) == [t \in S |-> t.best_score]

\* variant: top_vacs without "order by best_score"
TopVacsSetsUnordered(ranked, k) ==
    LET all == {[vacancy_id |-> r.vacancy_id, best_score |-> r.best_score] : r \in ranked}
    IN  {T \in SUBSET all : Cardinality(T) = Min2(k, Cardinality(all))}

TopVacsSets(ranked, k) ==
    LET all == {[vacancy_id |-> r.vacancy_id, best_score |-> r.best_score] : r \in ranked}
    IN  LimitSets(all, BestKey(all), k)

\* ---------------------------------------------------------------------
\* final select: ranked join top_vacs using (vacancy_id) where rn <= per_vac
\*               order by t.best_score asc, r.rn asc
\* ---------------------------------------------------------------------
JoinRows(ranked, top, per_vac) ==
    {[vacancy_id |-> r.vacancy_id, chunk_no |-> r.chunk_no, dist |-> r.dist,
      kw_sim |-> r.kw_sim, score |-> r.score, rn |-> r.rn,
      best_score |-> t.best_score] :
        <<r, t>> \in {p \in ranked \X top :
                        p[1].vacancy_id = p[2].vacancy_id /\ p[1].rn <= per_vac}}

\* variant: order by t.best_score desc
FinalOrderDesc(a, b) ==
    \/ a.best_score > b.best_score
    \/ a.best_score = b.best_score /\ a.rn <= b.rn

\* variant: order by r.rn only
FinalOrderRnOnly(a, b) == a.rn <= b.rn

FinalOrder(a, b) ==
    \/ a.best_score < b.best_score
    \/ a.best_score = b.best_score /\ a.rn <= b.rn

\* all sequences that list the rows once each, sorted by the final order by
\* (rows of equal keys in any order)
RECURSIVE SortedRows(_)
SortedRows(S) ==
    IF S = {} THEN {<<>>}
    ELSE UNION {{<<x>> \o sq : sq \in SortedRows(S \ {x})} :
                   x \in {y \in S : \A z \in S : FinalOrder(y, z)}}

\* every (pool, rows) the candidate query may return.  A Limit node that is
\* executed with a negative count raises "LIMIT must not be negative": the
\* one of scored is executed by every plan; the one of top_vacs only when
\* the join reads top_vacs, which a plan may skip when no row of ranked
\* passes "rn <= per_vac".
QueryResults(st, hybrid, w, candidates, k, per_vac) ==
    IF candidates < 0 THEN {[error |-> TRUE, pool |-> {}, rows |-> <<>>]}
    ELSE IF k < 0
    THEN {[error |-> TRUE, pool |-> {}, rows |-> <<>>]}
         \cup {[error |-> FALSE, pool |-> pool, rows |-> <<>>] :
                 pool \in {pl \in ScoredSets(st, hybrid, w, candidates) :
                              pl = {} \/ per_vac <= 0}}
    ELSE UNION {UNION {UNION {
            {[error |-> FALSE, pool |-> pool, rows |-> sq] :
                sq \in SortedRows(JoinRows(ranked, top, per_vac))}
            : top \in TopVacsSets(ranked, k)}
            : ranked \in RankedSets(pool)}
            : pool \in ScoredSets(st, hybrid, w, candidates)}

\* ---------------------------------------------------------------------
\* retrieve_vacancies (API): the loop over rows and the final de-duplication
\* ---------------------------------------------------------------------
EmptyMap == [v \in {} |-> None]

Evidence(r) ==
    [chunk_no |-> r.chunk_no, dist |-> r.dist, kw_sim |-> r.kw_sim,
     score |-> r.score, rank_in_vacancy |-> r.rn]

RECURSIVE GroupRows(_, _, _)
GroupRows(rws, order, map) ==
    IF rws = <<>> THEN [vac_order |-> order, vac_map |-> map]
    ELSE LET r == Head(rws)
             isnew == r.vacancy_id \notin DOMAIN map
             map1 == IF isnew
                     THEN map @@ (r.vacancy_id :>
                            [vacancy_id |-> r.vacancy_id, best_score |-> r.best_score,
                             evidence |-> <<>>])
                     ELSE map
             order1 == IF isnew THEN Append(order, r.vacancy_id) ELSE order
             map2 == [map1 EXCEPT ![r.vacancy_id].evidence = Append(@, Evidence(r))]
         IN  GroupRows(Tail(rws), order1, map2)

\* vac_order = [x for x in vac_order if not (x in seen or seen.add(x))]
RECURSIVE Dedup(_, _)
Dedup(sq, seen) ==
    IF sq = <<>> THEN <<>>
    ELSE IF Head(sq) \in seen THEN Dedup(Tail(sq), seen)
         ELSE <<Head(sq)>> \o Dedup(Tail(sq), seen \cup {Head(sq)})

\* variant: the caller's weight kept when pg_trgm is absent
WeightUsedCaller(trgm, kw_weight) == kw_weight

\* the weight after "if not trgm: kw_weight = 0.0"
WeightUsed(trgm, kw_weight) == IF ~trgm THEN 0 ELSE kw_weight

\* "if trgm and kw_weight > 0" chooses SQL_V2_WITH_TRGM
ApiHybrid(trgm, kw_weight) == trgm /\ WeightUsed(trgm, kw_weight) > 0

\* variant: vac_order gets the vacancy of every row, nothing removed
RetrieveVacanciesNoDedup(qr, trgm, kw_weight) ==
    LET g == GroupRows(qr.rows, <<>>, EmptyMap) IN
    [vac_order |-> [i \in 1..Len(qr.rows) |-> qr.rows[i].vacancy_id],
     vac_map |-> g.vac_map,
     trgm |-> trgm, kw_weight |-> WeightUsed(trgm, kw_weight)]

RetrieveVacancies(qr, trgm, kw_weight) ==
    LET g == GroupRows(qr.rows, <<>>, EmptyMap) IN
    [vac_order |-> Dedup(g.vac_order, {}), vac_map |-> g.vac_map,
     trgm |-> trgm, kw_weight |-> WeightUsed(trgm, kw_weight)]

\* /search: results in vac_order, and the metadata
SearchResponse(rt) ==
    [results |-> [i \in 1..Len(rt.vac_order) |-> rt.vac_map[rt.vac_order[i]]],
     hybrid_used |-> (rt.trgm /\ rt.kw_weight > 0),
     kw_weight_used |-> rt.kw_weight]

\* ---------------------------------------------------------------------
\* retrieve (console tool) and the output of its main
\* ---------------------------------------------------------------------
CliChunk(r) ==
    [chunk_no |-> r.chunk_no, dist |-> r.dist, kw_sim |-> r.kw_sim, score |-> r.score]

RECURSIVE CliGroupRows(_, _, _)
CliGroupRows(rws, order, map) ==
    IF rws = <<>> THEN [vac_order |-> order, vac_map |-> map]
    ELSE LET r == Head(rws)
             isnew == r.vacancy_id \notin DOMAIN map
             map1 == IF isnew
                     THEN map @@ (r.vacancy_id :>
                            [vacancy_id |-> r.vacancy_id, best_score |-> r.best_score,
                             evidence |-> <<>>])
                     ELSE map
             order1 == IF isnew THEN Append(order, r.vacancy_id) ELSE order
             map2 == [map1 EXCEPT ![r.vacancy_id].evidence = Append(@, CliChunk(r))]
         IN  CliGroupRows(Tail(rws), order1, map2)

\* "if trgm:" chooses SQL_V2_WITH_TRGM, whatever the weight
CliHybrid(trgm, kw_weight) == trgm

CliRetrieve(qr, trgm) ==
    LET g == CliGroupRows(qr.rows, <<>>, EmptyMap) IN
    [vac_order |-> Dedup(g.vac_order, {}), vac_map |-> g.vac_map, trgm |-> trgm]

\* what main prints: the "Hybrid:" label from args.kw_weight, the vacancies
CliOutput(rt, kw_weight) ==
    [results |-> [i \in 1..Len(rt.vac_order) |-> rt.vac_map[rt.vac_order[i]]],
     hybrid_used |-> (rt.trgm /\ kw_weight > 0)]

\* ---------------------------------------------------------------------
\* Text utilities.  A text is a sequence of one-character strings; the
\* texts explored are ASCII (letters, digits, punctuation, white space).
\* ---------------------------------------------------------------------
UpperChars == <<"A","B","C","D","E","F","G","H","I","J","K","L","M","N","O","P","Q","R","S","T","U","V","W","X","Y","Z">>
LowerChars == <<"a","b","c","d","e","f","g","h","i","j","k","l","m","n","o","p","q","r","s","t","u","v","w","x","y","z">>
Letters == 1..Len(UpperChars)
Digits == {"0", "1", "2", "3", "4", "5", "6", "7", "8", "9"}

UpperSet == {UpperChars[i] : i \in Letters}
LetterSet == UpperSet \cup {LowerChars[i] : i \in Letters}
ToLower == [c \in UpperSet |-> LowerChars[CHOOSE i \in Letters : UpperChars[i] = c]]

IsLetter(c) == c \in LetterSet

\* str.lower(), one character
LowerChar(c) == IF c \in UpperSet THEN ToLower[c] ELSE c

\* str.lower()
Lower(s) == [i \in 1..Len(s) |-> LowerChar(s[i])]

\* the classes \w and \s of re, and [a-z0-9\+\#\.] under re.IGNORECASE
WordChars == LetterSet \cup Digits \cup {"_"}
SpaceChars == {" ", "\t", "\n", "\r"}
TokenChars == LetterSet \cup Digits \cup {"+", "#", "."}

IsWordChar(c) == c \in WordChars
IsSpace(c) == c \in SpaceChars
IsTokenChar(c) == c \in TokenChars

\* a text argument: a str or None
Str(s) == [none |-> FALSE, s |-> s]
NoneStr == [none |-> TRUE, s |-> <<>>]
\* (s or "")
OrEmpty(t) == IF t.none THEN <<>> ELSE t.s

RECURSIVE SkipSpace(_)
SkipSpace(s) == IF s # <<>> /\ IsSpace(Head(s)) THEN SkipSpace(Tail(s)) ELSE s

\* re.sub(r"\s+", " ", s)
RECURSIVE CollapseSpace(_)
CollapseSpace(s) ==
    IF s = <<>> THEN <<>>
    ELSE IF IsSpace(Head(s)) THEN <<" ">> \o CollapseSpace(SkipSpace(s))
         ELSE <<Head(s)>> \o CollapseSpace(Tail(s))

RECURSIVE Reverse(_)
Reverse(s) == IF s = <<>> THEN <<>> ELSE Append(Reverse(Tail(s)), Head(s))

\* str.strip()
Strip(s) == Reverse(SkipSpace(Reverse(SkipSpace(s))))

\* normalize_ws
NormalizeWs(t) == Strip(CollapseSpace(OrEmpty(t)))

\* \b before position i of s (1 .. Len(s) + 1)
BoundaryAt(s, i) ==
    (i > 1 /\ IsWordChar(s[i - 1])) # (i <= Len(s) /\ IsWordChar(s[i]))

\* (?i)\b(kw)\b matches s from position i; kw is taken literally (re.escape)
MatchAt(s, i, kw) ==
    /\ i + Len(kw) - 1 <= Len(s)
    /\ \A j \in 1..Len(kw) : LowerChar(s[i + j - 1]) = LowerChar(kw[j])
    /\ BoundaryAt(s, i)
    /\ BoundaryAt(s, i + Len(kw))

\* re.search(rf"\b{kw}\b", s, flags=re.IGNORECASE) is not None
ReSearch(s, kw) == \E i \in 1..Len(s) : MatchAt(s, i, kw)

\* ---------------------------------------------------------------------
\* extract_query_keywords
\* ---------------------------------------------------------------------
\* RU_STOP | EN_STOP of the API module (the Cyrillic entries cannot match an
\* ASCII token and are left out)
StopWords ==
    {
     <<"i", "n", "t", "e", "r", "n">>, <<"i", "n", "t", "e", "r", "n", "s", "h", "i", "p">>, <<"j", "u", "n", "i", "o", "r">>,
     <<"m", "i", "d", "d", "l", "e">>, <<"s", "e", "n", "i", "o", "r">>, <<"a", "n", "d">>,
     <<"o", "r">>, <<"t", "h", "e">>, <<"a">>,
     <<"a", "n">>, <<"t", "o">>, <<"f", "o", "r">>,
     <<"o", "f">>, <<"i", "n">>, <<"o", "n">>,
     <<"w", "i", "t", "h">>, <<"f", "r", "o", "m">>, <<"a", "s">>,
     <<"i", "s">>, <<"a", "r", "e">>, <<"b", "e">>,
     <<"t", "h", "i", "s">>, <<"t", "h", "a", "t">>, <<"j", "o", "b">>,
     <<"v", "a", "c", "a", "n", "c", "y">>, <<"n", "e", "e", "d", "e", "d">>, <<"l", "o", "o", "k", "i", "n", "g">>}

\* RU_STOP | EN_STOP of the console tool
CliStopWords ==
    {
     <<"j", "u", "n", "i", "o", "r">>, <<"m", "i", "d", "d", "l", "e">>, <<"s", "e", "n", "i", "o", "r">>,
     <<"a", "n", "d">>, <<"o", "r">>, <<"t", "h", "e">>,
     <<"a">>, <<"a", "n">>, <<"t", "o">>,
     <<"f", "o", "r">>, <<"o", "f">>, <<"i", "n">>,
     <<"o", "n">>, <<"w", "i", "t", "h">>, <<"f", "r", "o", "m">>,
     <<"a", "s">>, <<"i", "s">>, <<"a", "r", "e">>,
     <<"b", "e">>, <<"t", "h", "i", "s">>, <<"t", "h", "a", "t">>,
     <<"j", "o", "b">>, <<"v", "a", "c", "a", "n", "c", "y">>, <<"i", "n", "t", "e", "r", "n">>,
     <<"i", "n", "t", "e", "r", "n", "s", "h", "i", "p">>, <<"n", "e", "e", "d", "e", "d">>, <<"l", "o", "o", "k", "i", "n", "g">>}

\* re.findall(r"[a-z0-9\+\#\.]{3,}", q, flags=re.IGNORECASE); run is the
\* run of class characters read so far
RECURSIVE FindTokens(_, _)
FindTokens(s, run) ==
    LET emit == IF Len(run) >= 3 THEN <<run>> ELSE <<>> IN
    IF s = <<>> THEN emit
    ELSE IF IsTokenChar(Head(s)) THEN FindTokens(Tail(s), Append(run, Head(s)))
         ELSE emit \o FindTokens(Tail(s), <<>>)

\* [t for t in tokens if t not in RU_STOP and t not in EN_STOP]
RECURSIVE DropStopWords(_, _)
DropStopWords(tokens, stop) ==
    IF tokens = <<>> THEN <<>>
    ELSE IF Head(tokens) \in stop THEN DropStopWords(Tail(tokens), stop)
         ELSE <<Head(tokens)>> \o DropStopWords(Tail(tokens), stop)

\* Counter(tokens)[w]
Count(tokens, w) == Cardinality({i \in 1..Len(tokens) : tokens[i] = w})

RemoveAt(sq, i) == SubSeq(sq, 1, i - 1) \o SubSeq(sq, i + 1, Len(sq))

\* variant: the keys by ascending count
RECURSIVE ByCountAscending(_, _)
ByCountAscending(keys, tokens) ==
    IF keys = <<>> THEN <<>>
    ELSE LET i == CHOOSE i \in 1..Len(keys) :
                    /\ \A j \in 1..Len(keys) : Count(tokens, keys[i]) <= Count(tokens, keys[j])
                    /\ \A j \in 1..(i - 1) : Count(tokens, keys[j]) > Count(tokens, keys[i])
         IN  <<keys[i]>> \o ByCountAscending(RemoveAt(keys, i), tokens)

\* the keys of the Counter (insertion order) sorted by descending count;
\* the sort is stable, equal counts keep insertion order
RECURSIVE ByCount(_, _)
ByCount(keys, tokens) ==
    IF keys = <<>> THEN <<>>
    ELSE LET i == CHOOSE i \in 1..Len(keys) :
                    /\ \A j \in 1..Len(keys) : Count(tokens, keys[i]) >= Count(tokens, keys[j])
                    /\ \A j \in 1..(i - 1) : Count(tokens, keys[j]) < Count(tokens, keys[i])
         IN  <<keys[i]>> \o ByCount(RemoveAt(keys, i), tokens)

\* sq[:n] for n >= 0; most_common(n) gives [] for n <= 0
Take(sq, n) == IF n <= 0 THEN <<>> ELSE SubSeq(sq, 1, Min2(n, Len(sq)))

\* Counter(tokens).most_common(n)
MostCommon(tokens, n) == Take(ByCount(Dedup(tokens, {}), tokens), n)

Returns(v) == [raised |-> FALSE, value |-> v]
Raises == [raised |-> TRUE, value |-> <<>>]

\* API: q = (query or "").lower()
ExtractQueryKeywords(query, max_words) ==
    Returns(MostCommon(DropStopWords(FindTokens(Lower(OrEmpty(query)), <<>>), StopWords),
                         max_words))

\* console tool: q = query.lower(), an AttributeError for None
CliExtractQueryKeywords(query, max_words) ==
    IF query.none THEN Raises
    ELSE Returns(MostCommon(DropStopWords(FindTokens(Lower(query.s), <<>>), CliStopWords),
                              max_words))

\* ---------------------------------------------------------------------
\* extract_tech_terms
\* ---------------------------------------------------------------------
TECH_PATTERNS ==
    <<
     <<"\\", "b", "j", "a", "v", "a", "\\", "b">>,
     <<"\\", "b", "s", "p", "r", "i", "n", "g", "\\", "b">>,
     <<"\\", "b", "s", "p", "r", "i", "n", "g", " ", "b", "o", "o", "t", "\\", "b">>,
     <<"\\", "b", "p", "y", "t", "h", "o", "n", "\\", "b">>,
     <<"\\", "b", "g", "o", "\\", "b">>,
     <<"\\", "b", "j", "a", "v", "a", "s", "c", "r", "i", "p", "t", "\\", "b">>,
     <<"\\", "b", "t", "y", "p", "e", "s", "c", "r", "i", "p", "t", "\\", "b">>,
     <<"\\", "b", "s", "q", "l", "\\", "b">>,
     <<"\\", "b", "p", "o", "s", "t", "g", "r", "e", "s", "\\", "b">>,
     <<"\\", "b", "p", "o", "s", "t", "g", "r", "e", "s", "q", "l", "\\", "b">>,
     <<"\\", "b", "c", "l", "i", "c", "k", "h", "o", "u", "s", "e", "\\", "b">>,
     <<"\\", "b", "m", "y", "s", "q", "l", "\\", "b">>,
     <<"\\", "b", "m", "o", "n", "g", "o", "d", "b", "\\", "b">>,
     <<"\\", "b", "a", "i", "r", "f", "l", "o", "w", "\\", "b">>,
     <<"\\", "b", "k", "a", "f", "k", "a", "\\", "b">>,
     <<"\\", "b", "r", "e", "d", "i", "s", "\\", "b">>,
     <<"\\", "b", "k", "u", "b", "e", "r", "n", "e", "t", "e", "s", "\\", "b">>,
     <<"\\", "b", "d", "o", "c", "k", "e", "r", "\\", "b">>,
     <<"\\", "b", "t", "e", "r", "r", "a", "f", "o", "r", "m", "\\", "b">>,
     <<"\\", "b", "h", "a", "d", "o", "o", "p", "\\", "b">>,
     <<"\\", "b", "s", "p", "a", "r", "k", "\\", "b">>,
     <<"\\", "b", "f", "l", "i", "n", "k", "\\", "b">>,
     <<"\\", "b", "d", "a", "t", "a", "b", "r", "i", "c", "k", "s", "\\", "b">>,
     <<"\\", "b", "e", "t", "l", "\\", "b">>,
     <<"\\", "b", "e", "l", "t", "\\", "b">>,
     <<"\\", "b", "d", "w", "h", "\\", "b">>,
     <<"\\", "b", "m", "l", "o", "p", "s", "\\", "b">>,
     <<"\\", "b", "c", "i", "\\", "/", "c", "d", "\\", "b">>>>

\* str.replace(sub, ""), sub not empty
RECURSIVE Remove(_, _)
Remove(s, sub) ==
    IF s = <<>> THEN <<>>
    ELSE IF Len(sub) <= Len(s) /\ SubSeq(s, 1, Len(sub)) = sub
         THEN Remove(SubSeq(s, Len(sub) + 1, Len(s)), sub)
         ELSE <<Head(s)>> \o Remove(Tail(s), sub)

\* term = p.replace(r"\b", "").replace("\\", "").strip()
TermOf(p) == Strip(Remove(Remove(p, <<"\\", "b">>), <<"\\">>))

\* an escaped character of a pattern stands for itself
RECURSIVE Unescape(_)
Unescape(s) ==
    IF s = <<>> THEN <<>>
    ELSE IF Head(s) = "\\" /\ Len(s) >= 2 THEN <<s[2]>> \o Unescape(SubSeq(s, 3, Len(s)))
         ELSE <<Head(s)>> \o Unescape(Tail(s))

\* the literal between the two \b of a pattern
LiteralOf(p) == Unescape(SubSeq(p, 3, Len(p) - 2))

\* per pattern: what it matches and the term it contributes
TechLiterals == [i \in 1..Len(TECH_PATTERNS) |-> LiteralOf(TECH_PATTERNS[i])]
TechTerms == [i \in 1..Len(TECH_PATTERNS) |-> TermOf(TECH_PATTERNS[i])]

\* variant: the terms in the order of the text, one per occurrence
RECURSIVE FoundTermsPerOccurrence(_, _)
FoundTermsPerOccurrence(t, i) ==
    IF i > Len(t) THEN <<>>
    ELSE LET hits == {n \in 1..Len(TECH_PATTERNS) : MatchAt(t, i, TechLiterals[n])} IN
         (IF hits = {} THEN <<>> ELSE <<TechTerms[CHOOSE n \in hits : \A m \in hits : n <= m]>>)
         \o FoundTermsPerOccurrence(t, i + 1)

\* the loop of extract_tech_terms over TECH_PATTERNS[i..]
RECURSIVE FoundTerms(_, _)
FoundTerms(t, i) ==
    IF i > Len(TECH_PATTERNS) THEN <<>>
    ELSE (IF ReSearch(t, TechLiterals[i]) THEN <<TechTerms[i]>> ELSE <<>>)
         \o FoundTerms(t, i + 1)

\* API: list(dict.fromkeys(found))
ExtractTechTerms(text) == Returns(Dedup(FoundTerms(Lower(OrEmpty(text)), 1), {}))

\* console tool: found
CliExtractTechTerms(text) == Returns(FoundTerms(Lower(OrEmpty(text)), 1))

\* ---------------------------------------------------------------------
\* highlight (the same code in the API module and the console tool) and
\* the formatting of one evidence fragment
\* ---------------------------------------------------------------------
\* re.sub(rf"(?i)\b({re.escape(kw)})\b", r"[\1]", s) from position i on;
\* kw is not empty
RECURSIVE ReSub(_, _, _)
ReSub(s, i, kw) ==
    IF i > Len(s) THEN <<>>
    ELSE IF MatchAt(s, i, kw)
         THEN <<"[">> \o SubSeq(s, i, i + Len(kw) - 1) \o <<"]">> \o ReSub(s, i + Len(kw), kw)
         ELSE <<s[i]>> \o ReSub(s, i + 1, kw)

\* sorted(set(keywords), key=len, reverse=True): the set is iterated in an
\* order the hash seed decides and the sort is stable, so keywords of one
\* length come in any order
RECURSIVE LengthOrders(_)
LengthOrders(S) ==
    IF S = {} THEN {<<>>}
    ELSE UNION {{<<x>> \o sq : sq \in LengthOrders(S \ {x})} :
                   x \in {y \in S : \A z \in S : Len(y) >= Len(z)}}

\* the loop of highlight over the sorted keywords
RECURSIVE ApplyKeywords(_, _)
ApplyKeywords(out, kws) ==
    IF kws = <<>> THEN out
    ELSE ApplyKeywords(ReSub(out, 1, Head(kws)), Tail(kws))

\* every value highlight(text, keywords) may return
Highlight(text, keywords) ==
    IF keywords = <<>> THEN {text}
    ELSE {ApplyKeywords(text, kws) :
            kws \in LengthOrders({keywords[i] : i \in 1..Len(keywords)})}

\* txt[:n]
Slice(s, n) ==
    IF n >= 0 THEN SubSeq(s, 1, Min2(n, Len(s)))
    ELSE SubSeq(s, 1, IF Len(s) + n > 0 THEN Len(s) + n ELSE 0)

\* if len(txt) > max_quote: txt = txt[:max_quote] + "..."
Truncate(txt, max_quote) ==
    IF Len(txt) > max_quote THEN Slice(txt, max_quote) \o <<".", ".", ".">> ELSE txt

\* variant: the text is cut to max_quote first and highlighted afterwards
FormatEvidenceTruncateFirst(text, keywords, max_quote, do_highlight) ==
    LET txt == Truncate(NormalizeWs(text), max_quote) IN
    IF do_highlight THEN Highlight(txt, keywords) ELSE {txt}

\* the body of the evidence loop of /search and /ask (and of the console
\* main, which always highlights)
FormatEvidence(text, keywords, max_quote, do_highlight) ==
    LET txt == NormalizeWs(text) IN
    IF do_highlight THEN {Truncate(h, max_quote) : h \in Highlight(txt, keywords)}
    ELSE {Truncate(txt, max_quote)}

\* ---------------------------------------------------------------------
\* The explanation 'why' of a document of /ask
\* ---------------------------------------------------------------------
MaxHitKw == 10
MaxHitTech == 12

\* " ".join(texts)
RECURSIVE JoinTexts(_)
JoinTexts(texts) ==
    IF texts = <<>> THEN <<>>
    ELSE IF Len(texts) = 1 THEN Head(texts)
    ELSE Head(texts) \o <<" ">> \o JoinTexts(Tail(texts))

\* sub in s
InStr(sub, s) ==
    \E i \in 1..(Len(s) + 1) :
        i + Len(sub) - 1 <= Len(s) /\ SubSeq(s, i, i + Len(sub) - 1) = sub

\* [kw for kw in keywords if kw in joined]
RECURSIVE KeywordsIn(_, _)
KeywordsIn(keywords, joined) ==
    IF keywords = <<>> THEN <<>>
    ELSE (IF InStr(Head(keywords), joined) THEN <<Head(keywords)>> ELSE <<>>)
         \o KeywordsIn(Tail(keywords), joined)

\* hit_kw
HitKw(keywords, joined) == Take(KeywordsIn(keywords, joined), MaxHitKw)

\* variant: the terms whose literal is a substring of the joined text
RECURSIVE SubstringTerms(_, _)
SubstringTerms(joined, i) ==
    IF i > Len(TECH_PATTERNS) THEN <<>>
    ELSE (IF InStr(TechLiterals[i], joined) THEN <<TechTerms[i]>> ELSE <<>>)
         \o SubstringTerms(joined, i + 1)
HitTechSubstring(joined) == Take(SubstringTerms(joined, 1), MaxHitTech)

\* hit_tech
HitTech(joined) == Take(ExtractTechTerms(Str(joined)).value, MaxHitTech)

\* the list why of one document whose evidence texts are given
Why(keywords, texts) ==
    LET joined == Lower(JoinTexts(texts))
        hit_kw == HitKw(keywords, joined)
        hit_tech == HitTech(joined)
    IN  (IF hit_kw # <<>> THEN <<[type |-> "query_match", items |-> hit_kw]>> ELSE <<>>)
        \o (IF hit_tech # <<>> THEN <<[type |-> "tech_terms", items |-> hit_tech]>> ELSE <<>>)

\* ---------------------------------------------------------------------
\* Requests
\* ---------------------------------------------------------------------
\* the validated requests: caps and weight not negative
Ks == 0..MaxK
PerVacs == 0..MaxPerVac
Candidates == 0..MaxCand
Weights == 0..MaxWeight

Request(entry, k, per_vac, candidates, kw_weight) ==
    [entry |-> entry, k |-> k, per_vac |-> per_vac,
     candidates |-> candidates, kw_weight |-> kw_weight]

\* variant: the exception is caught and an empty result returned instead
FailedSwallowed(rq, step) ==
    /\ pc' = "done"
    /\ req' = rq
    /\ scored' = {}
    /\ rows' = <<>>
    /\ ret' = [vac_order |-> <<>>, vac_map |-> EmptyMap, trgm |-> FALSE, kw_weight |-> 0]
    /\ response' = SearchResponse(ret')
    /\ failure' = step

\* an exception leaves retrieve_vacancies / retrieve: nothing is returned
Failed(rq, step) ==
    /\ pc' = "failed"
    /\ req' = rq
    /\ scored' = {}
    /\ rows' = <<>>
    /\ ret' = None
    /\ response' = None
    /\ failure' = step

\* one /search request, from the call of retrieve_vacancies to the response
ServeSearch(rq) ==
    \E qr \in QueryResults(store, ApiHybrid(pg_trgm, rq.kw_weight),
                           WeightUsed(pg_trgm, rq.kw_weight),
                           rq.candidates, rq.k, rq.per_vac) :
        IF qr.error THEN Failed(rq, "query")
        ELSE LET rt == RetrieveVacancies(qr, pg_trgm, rq.kw_weight) IN
             /\ pc' = "done"
             /\ req' = rq
             /\ scored' = qr.pool
             /\ rows' = qr.rows
             /\ ret' = rt
             /\ response' = SearchResponse(rt)
             /\ failure' = "none"

\* one run of the console tool
ServeCli(rq) ==
    \E qr \in QueryResults(store, CliHybrid(pg_trgm, rq.kw_weight),
                           WeightUsed(pg_trgm, rq.kw_weight),
                           rq.candidates, rq.k, rq.per_vac) :
        IF qr.error THEN Failed(rq, "query")
        ELSE LET rt == CliRetrieve(qr, pg_trgm) IN
             /\ pc' = "done"
             /\ req' = rq
             /\ scored' = qr.pool
             /\ rows' = qr.rows
             /\ ret' = rt
             /\ response' = CliOutput(rt, rq.kw_weight)
             /\ failure' = "none"

Search ==
    /\ pc = "idle"
    /\ \E k \in Ks, per_vac \in PerVacs, candidates \in Candidates, kw_weight \in Weights :
           ServeSearch(Request("search", k, per_vac, candidates, kw_weight))
    /\ UNCHANGED <<store, pg_trgm, call, result, scriptVars>>

CliMain ==
    /\ pc = "idle"
    /\ \E k \in Ks, per_vac \in PerVacs, candidates \in Candidates, kw_weight \in Weights :
           ServeCli(Request("cli", k, per_vac, candidates, kw_weight))
    /\ UNCHANGED <<store, pg_trgm, call, result, scriptVars>>

\* the same request once more, the store unchanged
SearchAgain ==
    /\ pc = "done"
    /\ req.entry = "search"
    /\ ServeSearch(req)
    /\ UNCHANGED <<store, pg_trgm, call, result, scriptVars>>

Init ==
    /\ \E cnt \in ChunkCounts :
         \E val \in [ChunkKeys(cnt) -> ChunkValues] :
             store = {ChunkRow(kk, val[kk]) : kk \in ChunkKeys(cnt)}
    /\ pg_trgm \in BOOLEAN
    /\ pc = "idle"
    /\ req = None
    /\ scored = {}
    /\ rows = <<>>
    /\ ret = None
    /\ response = None
    /\ failure = "none"
    /\ call = None
    /\ result = None
    /\ inv = None
    /\ chunking = None
    /\ pipeline = None
    /\ enrich = None

\* requests to /search
Next == Search

Spec == Init /\ [][Next]_vars

\* a /search request and the same request repeated
NextAgain == Search \/ SearchAgain

SpecAgain == Init /\ [][NextAgain]_vars

\* requests to /search and runs of the console tool
NextCli == Search \/ CliMain

SpecCli == Init /\ [][NextCli]_vars

\* ---------------------------------------------------------------------
\* Calls of the text utilities.  The texts explored are concatenations of
\* a few pieces (words, white space), so that the cases of interest fit in
\* short texts.
\* ---------------------------------------------------------------------
MaxTextPieces == 5
MaxQueryPieces == 5
MaxHighlightPieces == 4
MaxQuotePieces == 3
MaxWords == 2
MaxKeywords == 2
MaxQuote == 6
MaxTokenPieces == 3

\* max_words=12 at the call sites of extract_query_keywords
CallerMaxWords == 12

RECURSIVE Concat(_)
Concat(pieces) == IF pieces = <<>> THEN <<>> ELSE Head(pieces) \o Concat(Tail(pieces))

SeqsUpTo(S, n) == UNION {[1..m -> S] : m \in 0..n}

TextsOf(pieces, n) == {Concat(sq) : sq \in SeqsUpTo(pieces, n)}

TechPieces ==
    {<<"S", "p", "r", "i", "n", "g">>, <<"B", "o", "o", "t">>, <<"d", "e", "v", "e", "l", "o", "p", "e", "r">>,
     <<"s", "q", "l">>, <<"g", "o">>, <<" ">>}

QueryPieces ==
    {<<"s", "q", "l">>, <<"S", "Q", "L">>, <<"j", "a", "v", "a">>, <<"t", "h", "e">>, <<"g", "o">>, <<" ">>}

HighlightPieces ==
    {<<"S", "p", "r", "i", "n", "g">>, <<"B", "o", "o", "t">>, <<"b", "o", "o", "t">>, <<" ">>}

HighlightKeywords ==
    {<<"s", "p", "r", "i", "n", "g">>, <<"s", "p", "r", "i", "n", "g", " ", "b", "o", "o", "t">>,
     <<"b", "o", "o", "t">>}

QuotePieces ==
    {<<"s", "q", "l">>, <<"S", "Q", "L">>, <<"g", "o">>, <<" ">>, <<"\n">>}

QuoteQueries ==
    {<<>>, <<"s", "q", "l">>, <<"s", "q", "l", " ", "g", "o">>, <<"t", "h", "e", " ", "s", "q", "l">>}

TechCalls ==
    {[fn |-> "extract_tech_terms", text |-> t] :
        t \in {NoneStr} \cup {Str(x) : x \in TextsOf(TechPieces, MaxTextPieces)}}

KeywordCalls ==
    {[fn |-> "extract_query_keywords", query |-> t, max_words |-> n] :
        t \in {NoneStr} \cup {Str(x) : x \in TextsOf(QueryPieces, MaxQueryPieces)},
        n \in 0..MaxWords}

HighlightCalls ==
    {[fn |-> "highlight", text |-> t, keywords |-> kws] :
        t \in TextsOf(HighlightPieces, MaxHighlightPieces),
        kws \in SeqsUpTo(HighlightKeywords, MaxKeywords)}

\* texts and keywords with the token characters "+" of the keyword class
TokenPieces == {<<"c", "+", "+">>, <<"C", "+", "+">>, <<"s", "q", "l">>, <<" ">>}
TokenKeywords == {<<"c", "+", "+">>, <<"s", "q", "l">>}
TokenHighlightCalls ==
    {[fn |-> "highlight", text |-> t, keywords |-> <<kw>>] :
        t \in TextsOf(TokenPieces, MaxTokenPieces), kw \in TokenKeywords}

\* thirteen technology words, each a keyword and a technology term
AskWords ==
    <<<<"j", "a", "v", "a">>,
      <<"p", "y", "t", "h", "o", "n">>,
      <<"s", "q", "l">>,
      <<"k", "a", "f", "k", "a">>,
      <<"r", "e", "d", "i", "s">>,
      <<"e", "t", "l">>,
      <<"e", "l", "t">>,
      <<"d", "w", "h">>,
      <<"s", "p", "a", "r", "k">>,
      <<"f", "l", "i", "n", "k">>,
      <<"m", "y", "s", "q", "l">>,
      <<"d", "o", "c", "k", "e", "r">>,
      <<"m", "l", "o", "p", "s">>>>

\* the first n words, separated by spaces
FirstWords(n) == JoinTexts(SubSeq(AskWords, 1, n))

AskQueries ==
    {FirstWords(n) : n \in {1, 2, 10, 11, 12, 13}}
        \cup {<<"t", "h", "e">>, <<"j", "a", "v", "a", " ", "j", "a", "v", "a", "s", "c", "r", "i", "p", "t">>, <<"t", "h", "e", " ", "s", "q", "l">>}

AskTexts ==
    {FirstWords(n) : n \in {1, 10, 11, 13}}
        \cup {<<"J", "a", "v", "a", "S", "c", "r", "i", "p", "t">>, <<"P", "o", "s", "t", "g", "r", "e", "S", "Q", "L", " ", "g", "o">>, <<"J", "a", "v", "a", " ", "S", "Q", "L">>, <<"s", "p", "r", "i", "n", "g">>}

\* /ask for one returned document: the query and the texts of its evidence
AskCalls ==
    {[fn |-> "ask", q |-> Str(qq), evidence |-> ev] :
        qq \in AskQueries, ev \in SeqsUpTo(AskTexts, MaxPerVac) \ {<<>>}}

QuoteCalls ==
    {[fn |-> "search", text |-> Str(t), q |-> Str(qq), max_quote |-> n, do_highlight |-> h] :
        t \in TextsOf(QuotePieces, MaxQuotePieces), qq \in QuoteQueries,
        n \in 0..MaxQuote, h \in BOOLEAN}

retrievalVars == <<store, pg_trgm, pc, req, scored, rows, ret, response, failure>>

CallExtractTechTerms ==
    /\ call # None /\ result = None
    /\ call.fn = "extract_tech_terms"
    /\ result' = [module |-> "api", out |-> ExtractTechTerms(call.text)]
    /\ UNCHANGED <<retrievalVars, call, scriptVars>>

CallCliExtractTechTerms ==
    /\ call # None /\ result = None
    /\ call.fn = "extract_tech_terms"
    /\ result' = [module |-> "cli", out |-> CliExtractTechTerms(call.text)]
    /\ UNCHANGED <<retrievalVars, call, scriptVars>>

CallExtractQueryKeywords ==
    /\ call # None /\ result = None
    /\ call.fn = "extract_query_keywords"
    /\ result' = [module |-> "api", out |-> ExtractQueryKeywords(call.query, call.max_words)]
    /\ UNCHANGED <<retrievalVars, call, scriptVars>>

CallCliExtractQueryKeywords ==
    /\ call # None /\ result = None
    /\ call.fn = "extract_query_keywords"
    /\ result' = [module |-> "cli", out |-> CliExtractQueryKeywords(call.query, call.max_words)]
    /\ UNCHANGED <<retrievalVars, call, scriptVars>>

CallHighlight ==
    /\ call # None /\ result = None
    /\ call.fn = "highlight"
    /\ \E h \in Highlight(call.text, call.keywords) :
           result' = [module |-> "api", out |-> Returns(h)]
    /\ UNCHANGED <<retrievalVars, call, scriptVars>>

\* one evidence fragment through /search: keywords of q, then the loop body
SearchQuote ==
    /\ call # None /\ result = None
    /\ call.fn = "search"
    /\ LET keywords == ExtractQueryKeywords(call.q, CallerMaxWords).value IN
       \E txt \in FormatEvidence(call.text, keywords, call.max_quote, call.do_highlight) :
           result' = [module |-> "api", keywords |-> keywords, out |-> Returns(txt)]
    /\ UNCHANGED <<retrievalVars, call, scriptVars>>

\* the explanation of one returned document of /ask
AskWhy ==
    /\ call # None /\ result = None
    /\ call.fn = "ask"
    /\ LET keywords == ExtractQueryKeywords(call.q, CallerMaxWords).value IN
       result' = [module |-> "api", keywords |-> keywords,
                  out |-> Returns(Why(keywords, call.evidence))]
    /\ UNCHANGED <<retrievalVars, call, scriptVars>>

InitText ==
    /\ store = {}
    /\ pg_trgm = FALSE
    /\ pc = "idle"
    /\ req = None
    /\ scored = {}
    /\ rows = <<>>
    /\ ret = None
    /\ response = None
    /\ failure = "none"
    /\ call \in TechCalls \cup KeywordCalls \cup HighlightCalls \cup TokenHighlightCalls
                \cup QuoteCalls \cup AskCalls
    /\ result = None
    /\ inv = None
    /\ chunking = None
    /\ pipeline = None
    /\ enrich = None

NextText ==
    \/ CallExtractTechTerms
    \/ CallCliExtractTechTerms
    \/ CallExtractQueryKeywords
    \/ CallCliExtractQueryKeywords
    \/ CallHighlight
    \/ SearchQuote
    \/ AskWhy

SpecText == InitText /\ [][NextText]_vars

\* ---------------------------------------------------------------------
\* Collaborator failures: _embedder.embed (line 182), has_pg_trgm (186) and
\* cur.execute / fetchall (192-201) may raise; retrieve_vacancies and search
\* have no try/except, and "with psycopg.connect" re-raises on exit
\* ---------------------------------------------------------------------
FailureSteps == {"embed", "probe", "query"}

SearchFault ==
    /\ pc = "idle"
    /\ \E k \in Ks, per_vac \in PerVacs, candidates \in Candidates, kw_weight \in Weights :
         \E step \in FailureSteps :
           Failed(Request("search", k, per_vac, candidates, kw_weight), step)
    /\ UNCHANGED <<store, pg_trgm, call, result, scriptVars>>

NextFault == Search \/ SearchFault

SpecFault == Init /\ [][NextFault]_vars

\* ---------------------------------------------------------------------
\* Requests as the entry points accept them: k, per_vac, candidates are
\* any int and kw_weight any float (no Query(...) constraint, no argparse
\* check), so negative values reach retrieve_vacancies / retrieve as well
\* ---------------------------------------------------------------------
AnyKs == (-1)..MaxK
AnyPerVacs == (-1)..MaxPerVac
AnyCandidates == (-1)..MaxCand
AnyWeights == (-1)..MaxWeight

SearchAnyInput ==
    /\ pc = "idle"
    /\ \E k \in AnyKs, per_vac \in AnyPerVacs, candidates \in AnyCandidates,
          kw_weight \in AnyWeights :
           ServeSearch(Request("search", k, per_vac, candidates, kw_weight))
    /\ UNCHANGED <<store, pg_trgm, call, result, scriptVars>>

CliMainAnyInput ==
    /\ pc = "idle"
    /\ \E k \in AnyKs, per_vac \in AnyPerVacs, candidates \in AnyCandidates,
          kw_weight \in AnyWeights :
           ServeCli(Request("cli", k, per_vac, candidates, kw_weight))
    /\ UNCHANGED <<store, pg_trgm, call, result, scriptVars>>

NextAnyInput == SearchAnyInput \/ CliMainAnyInput

SpecAnyInput == Init /\ [][NextAnyInput]_vars

\* ---------------------------------------------------------------------
\* Requests served at the same time.  FastAPI runs the handlers search and
\* ask, plain functions, in the threads of a pool; each call of
\* retrieve_vacancies has its own locals and its own connection.  The
\* embedder is one object for all, called to embed and never assigned.
\* ---------------------------------------------------------------------
MaxProcs == 2
Procs == 1..MaxProcs

\* the requests served side by side (validated; per_vac, candidates and
\* kw_weight at their bounds)
ConcRequests ==
    {Request(entry, k, MaxPerVac, MaxCand, MaxWeight) :
        entry \in {"search", "ask"}, k \in 1..MaxK}

IdleInv == [pc |-> "idle", rq |-> None, trgm |-> FALSE, rows |-> <<>>, response |-> None]

\* the part of the response of /search and /ask that comes from retrieval
ConcResponse(rq, rt) ==
    [entry |-> rq.entry, k |-> rq.k, per_vac |-> rq.per_vac, body |-> SearchResponse(rt)]

\* a request arrives; its thread embeds the query
Begin(p) ==
    /\ inv # None
    /\ inv[p].pc = "idle"
    /\ \E rq \in ConcRequests :
           inv' = [inv EXCEPT ![p] = [IdleInv EXCEPT !.pc = "embedded", !.rq = rq]]
    /\ UNCHANGED <<retrievalVars, call, result, chunking, pipeline, enrich>>

\* variant: the fetched rows go to one list that every request in flight reads
KeepRowsShared(p, qr) ==
    [q \in Procs |->
        IF q = p THEN [inv[q] EXCEPT !.pc = "fetched", !.trgm = pg_trgm, !.rows = qr.rows]
        ELSE IF inv[q].pc = "fetched" THEN [inv[q] EXCEPT !.rows = qr.rows]
        ELSE inv[q]]

\* rows = cur.fetchall(): a local of the call
KeepRows(p, qr) ==
    [inv EXCEPT ![p] = [@ EXCEPT !.pc = "fetched", !.trgm = pg_trgm, !.rows = qr.rows]]

\* its own connection: the probe for pg_trgm and the candidate query
RunQuery(p) ==
    /\ inv # None
    /\ inv[p].pc = "embedded"
    /\ LET rq == inv[p].rq IN
       \E qr \in QueryResults(store, ApiHybrid(pg_trgm, rq.kw_weight),
                              WeightUsed(pg_trgm, rq.kw_weight),
                              rq.candidates, rq.k, rq.per_vac) :
           inv' = IF qr.error THEN [inv EXCEPT ![p].pc = "failed"] ELSE KeepRows(p, qr)
    /\ UNCHANGED <<retrievalVars, call, result, chunking, pipeline, enrich>>

\* the loop over rows and the response
Respond(p) ==
    /\ inv # None
    /\ inv[p].pc = "fetched"
    /\ LET rq == inv[p].rq
           rt == RetrieveVacancies([rows |-> inv[p].rows], inv[p].trgm, rq.kw_weight)
       IN  inv' = [inv EXCEPT ![p].pc = "done", ![p].response = ConcResponse(rq, rt)]
    /\ UNCHANGED <<retrievalVars, call, result, chunking, pipeline, enrich>>

InitConc ==
    /\ \E cnt \in ChunkCounts :
         \E val \in [ChunkKeys(cnt) -> ChunkValues] :
             store = {ChunkRow(kk, val[kk]) : kk \in ChunkKeys(cnt)}
    /\ pg_trgm \in BOOLEAN
    /\ pc = "idle"
    /\ req = None
    /\ scored = {}
    /\ rows = <<>>
    /\ ret = None
    /\ response = None
    /\ failure = "none"
    /\ call = None
    /\ result = None
    /\ inv = [p \in Procs |-> IdleInv]
    /\ chunking = None
    /\ pipeline = None
    /\ enrich = None

NextConc == \E p \in Procs : Begin(p) \/ RunQuery(p) \/ Respond(p)

SpecConc == InitConc /\ [][NextConc]_vars

\* ---------------------------------------------------------------------
\* Waiting for the collaborators.  _embedder.embed (line 182) and the
\* connection with its two statements (185-201) are blocking calls made
\* without a timeout argument, and no timer runs beside them: the thread
\* goes on when the collaborator answers or raises, not before.
\* ---------------------------------------------------------------------
\* a request arrives: retrieve_vacancies calls the embedder
CallRetrieve ==
    /\ pc = "idle"
    /\ \E rq \in ConcRequests :
           /\ pc' = "embedding"
           /\ req' = rq
    /\ UNCHANGED <<store, pg_trgm, scored, rows, ret, response, failure, call, result, scriptVars>>

\* the embedder answers
EmbedResponds ==
    /\ pc = "embedding"
    /\ pc' = "embedded"
    /\ UNCHANGED <<store, pg_trgm, req, scored, rows, ret, response, failure, call, result, scriptVars>>

\* the thread connects and sends the probe and the candidate query
SendQuery ==
    /\ pc = "embedded"
    /\ pc' = "querying"
    /\ UNCHANGED <<store, pg_trgm, req, scored, rows, ret, response, failure, call, result, scriptVars>>

\* the storage answers: rows = cur.fetchall()
StorageResponds ==
    /\ pc = "querying"
    /\ \E qr \in QueryResults(store, ApiHybrid(pg_trgm, req.kw_weight),
                              WeightUsed(pg_trgm, req.kw_weight),
                              req.candidates, req.k, req.per_vac) :
           IF qr.error THEN Failed(req, "query")
           ELSE /\ pc' = "fetched"
                /\ scored' = qr.pool
                /\ rows' = qr.rows
                /\ UNCHANGED <<req, ret, response, failure>>
    /\ UNCHANGED <<store, pg_trgm, call, result, scriptVars>>

\* the loop over rows and the response
FinishRetrieve ==
    /\ pc = "fetched"
    /\ LET rt == RetrieveVacancies([rows |-> rows], pg_trgm, req.kw_weight) IN
           /\ pc' = "done"
           /\ ret' = rt
           /\ response' = SearchResponse(rt)
    /\ UNCHANGED <<store, pg_trgm, req, scored, rows, failure, call, result, scriptVars>>

\* the collaborator waited for raises
CollaboratorRaises ==
    /\ pc \in {"embedding", "querying"}
    /\ Failed(req, IF pc = "embedding" THEN "embed" ELSE "query")
    /\ UNCHANGED <<store, pg_trgm, call, result, scriptVars>>

NextHang ==
    \/ CallRetrieve
    \/ EmbedResponds
    \/ SendQuery
    \/ StorageResponds
    \/ FinishRetrieve
    \/ CollaboratorRaises

\* the steps of the thread itself are taken when they can be; whether and
\* when a collaborator answers is not up to the program
SpecHang ==
    /\ Init
    /\ [][NextHang]_vars
    /\ WF_vars(CallRetrieve)
    /\ WF_vars(SendQuery)
    /\ WF_vars(FinishRetrieve)

\* ---------------------------------------------------------------------
\* enrich_hh_details: fetch_json_with_retries and the loop of main
\* ---------------------------------------------------------------------
MaxIds == 3
MaxRetries == 2
MaxCommitEvery == 2

\* what one session.get can bring: a vacancy as JSON, an empty JSON value,
\* 404, 429, 403 with captcha_required, another 403, another 4xx, a 5xx,
\* or an exception (no connection, timeout, a body that is not JSON)
Responses ==
    {"ok", "empty", "not_found", "too_many", "captcha", "forbidden", "client_error",
     "server_error", "exception"}

NoExc == [kind |-> "none"]
HTTPError(status) == [kind |-> "HTTPError", status |-> status]
OtherExc == [kind |-> "Exception"]

\* the status of the response raise_for_status raised for
StatusOf(resp) == IF resp = "forbidden" THEN 403 ELSE 400

\* the tag after the loop
ExhaustedTag(last_exc) ==
    IF last_exc.kind = "HTTPError" /\ last_exc.status = 429 THEN "rate_limited"
    ELSE "http_error"

Pair(detail, tag) == [raised |-> FALSE, detail |-> detail, tag |-> tag]
CaptchaRequired == [raised |-> TRUE, detail |-> "none", tag |-> "captcha_required"]

\* the run before its first id
EnrichStart(n, retries, commit_every, can_update) ==
    [ids |-> [i \in 1..n |-> i], retries |-> retries, commit_every |-> commit_every,
     can_update |-> can_update,
     pc |-> "next", idx |-> 1,
     attempt |-> 0, last_exc |-> NoExc, requests |-> 0, seen |-> {}, out |-> None,
     fetched |-> [i \in 1..n |-> 0], sent |-> 0,
     updated |-> 0, not_found |-> 0, rate_limited |-> 0, errors |-> 0,
     pending_updates |-> 0, executed |-> 0, committed |-> 0]

\* for idx, vac_id in enumerate(ids, 1): the next id is fetched, or the loop
\* is over and the pending updates are committed
NextId ==
    /\ enrich # None
    /\ enrich.pc = "next"
    /\ enrich' =
         IF enrich.idx > Len(enrich.ids)
         THEN [enrich EXCEPT !.pc = "done",
                             !.committed = IF enrich.pending_updates > 0
                                           THEN enrich.executed ELSE @]
         ELSE [enrich EXCEPT !.pc = "get", !.attempt = 0, !.last_exc = NoExc,
                             !.requests = 0, !.seen = {}, !.out = None,
                             !.fetched[enrich.ids[enrich.idx]] = @ + 1]
    /\ UNCHANGED <<retrievalVars, call, result, inv, chunking, pipeline>>

\* variant: a 404 is retried like a 5xx
OnNotFoundRetry(e) == [e EXCEPT !.attempt = @ + 1]

\* return None, "not_found"
OnNotFound(e) == [e EXCEPT !.pc = "got", !.out = Pair("none", "not_found")]

\* one pass of "for attempt in range(retries + 1)" with its request, or the
\* return after the loop
FetchAttempt ==
    /\ enrich # None
    /\ enrich.pc = "get"
    /\ IF enrich.attempt > enrich.retries
       THEN enrich' = [enrich EXCEPT !.pc = "got",
                                     !.out = Pair("none", ExhaustedTag(enrich.last_exc))]
       ELSE \E resp \in Responses :
              LET e == [enrich EXCEPT !.requests = @ + 1, !.sent = @ + 1,
                                      !.seen = @ \cup {resp}]
              IN  enrich' =
                    CASE resp = "not_found" -> OnNotFound(e)
                      [] resp \in {"too_many", "server_error"} ->
                            [e EXCEPT !.attempt = @ + 1]
                      [] resp = "captcha" ->
                            \* raise CaptchaRequired; main commits and returns
                            [e EXCEPT !.pc = "stopped", !.out = CaptchaRequired,
                                      !.committed = e.executed]
                      [] resp \in {"forbidden", "client_error"} ->
                            [e EXCEPT !.attempt = @ + 1, !.last_exc = HTTPError(StatusOf(resp))]
                      [] resp = "exception" ->
                            [e EXCEPT !.attempt = @ + 1, !.last_exc = OtherExc]
                      [] resp = "empty" -> [e EXCEPT !.pc = "got", !.out = Pair("empty", "none")]
                      [] OTHER -> [e EXCEPT !.pc = "got", !.out = Pair("vacancy", "none")]
    /\ UNCHANGED <<retrievalVars, call, result, inv, chunking, pipeline>>

\* variant: the commit waits until more than commit_every updates are pending
CommitDueLate(pending_updates, commit_every) == pending_updates > commit_every

\* if pending_updates >= args.commit_every
CommitDue(pending_updates, commit_every) == pending_updates >= commit_every

\* the rest of the loop body: the tag, the update, the commit
HandleResult ==
    /\ enrich # None
    /\ enrich.pc = "got"
    /\ LET e == [enrich EXCEPT !.pc = "next", !.idx = @ + 1] IN
       enrich' =
         CASE enrich.out.tag = "not_found" -> [e EXCEPT !.not_found = @ + 1]
           [] enrich.out.tag = "rate_limited" -> [e EXCEPT !.rate_limited = @ + 1]
           [] enrich.out.tag = "http_error" -> [e EXCEPT !.errors = @ + 1]
           [] enrich.out.detail = "empty" -> [e EXCEPT !.errors = @ + 1]
           [] ~enrich.can_update -> e
           [] OTHER ->
                IF CommitDue(enrich.pending_updates + 1, enrich.commit_every)
                THEN [e EXCEPT !.updated = @ + 1, !.executed = @ + 1,
                               !.pending_updates = 0, !.committed = enrich.executed + 1]
                ELSE [e EXCEPT !.updated = @ + 1, !.executed = @ + 1,
                               !.pending_updates = @ + 1]
    /\ UNCHANGED <<retrievalVars, call, result, inv, chunking, pipeline>>

InitEnrich ==
    /\ store = {}
    /\ pg_trgm = FALSE
    /\ pc = "idle"
    /\ req = None
    /\ scored = {}
    /\ rows = <<>>
    /\ ret = None
    /\ response = None
    /\ failure = "none"
    /\ call = None
    /\ result = None
    /\ inv = None
    /\ chunking = None
    /\ pipeline = None
    /\ \E n \in 0..MaxIds, retries \in 0..MaxRetries, commit_every \in 1..MaxCommitEvery,
          can_update \in BOOLEAN :
           enrich = EnrichStart(n, retries, commit_every, can_update)

NextEnrich == NextId \/ FetchAttempt \/ HandleResult

SpecEnrich == InitEnrich /\ [][NextEnrich]_vars

\* ---------------------------------------------------------------------
\* build_chunks: chunk_text.  The text is given by its length after
\* strip(); a chunk is the slice text[start:end], kept as its two ends.
\* ---------------------------------------------------------------------
MaxTextLen == 4
MaxChars == 3
MaxOverlap == 3

\* of the list chunks, which grows with every pass of the loop, this many
\* entries are kept: more than a text of MaxTextLen characters has starts
MaxSpans == MaxTextLen + 1

\* chunks.append(...), as far as the list is kept
AppendSpan(chunks, span) == IF Len(chunks) < MaxSpans THEN Append(chunks, span) ELSE chunks

\* text = text.strip(); if not text: return []; chunks = []; start = 0
ChunkTextCall ==
    /\ chunking # None
    /\ chunking.pc = "call"
    /\ chunking' = IF chunking.n = 0 THEN [chunking EXCEPT !.pc = "returned"]
                   ELSE [chunking EXCEPT !.pc = "test"]
    /\ UNCHANGED <<retrievalVars, call, result, inv, pipeline, enrich>>

\* while start < n
ChunkTextTest ==
    /\ chunking # None
    /\ chunking.pc = "test"
    /\ chunking' = [chunking EXCEPT !.pc = IF chunking.start < chunking.n
                                           THEN "body" ELSE "returned"]
    /\ UNCHANGED <<retrievalVars, call, result, inv, pipeline, enrich>>

\* the body of the loop: the chunk, the break, the next start
ChunkTextBody ==
    /\ chunking # None
    /\ chunking.pc = "body"
    /\ LET end == Min2(chunking.n, chunking.start + chunking.max_chars)
           chunks == AppendSpan(chunking.chunks, <<chunking.start, end>>)
       IN  chunking' =
             IF end = chunking.n
             THEN [chunking EXCEPT !.chunks = chunks, !.pc = "returned"]
             ELSE [chunking EXCEPT !.chunks = chunks, !.pc = "test",
                                   !.start = IF end - chunking.overlap > 0
                                             THEN end - chunking.overlap ELSE 0]
    /\ UNCHANGED <<retrievalVars, call, result, inv, pipeline, enrich>>

InitChunk ==
    /\ store = {}
    /\ pg_trgm = FALSE
    /\ pc = "idle"
    /\ req = None
    /\ scored = {}
    /\ rows = <<>>
    /\ ret = None
    /\ response = None
    /\ failure = "none"
    /\ call = None
    /\ result = None
    /\ inv = None
    /\ pipeline = None
    /\ enrich = None
    /\ \E n \in 0..MaxTextLen, max_chars \in 1..MaxChars, overlap \in 0..MaxOverlap :
           chunking = [n |-> n, max_chars |-> max_chars, overlap |-> overlap,
                       pc |-> "call", start |-> 0, chunks |-> <<>>]

NextChunk == ChunkTextCall \/ ChunkTextTest \/ ChunkTextBody

\* the function runs on while it has a step to take
SpecChunk == InitChunk /\ [][NextChunk]_vars /\ WF_vars(NextChunk)

\* ---------------------------------------------------------------------
\* The scripts that fill the tables: the upsert of fetch_hh and the update
\* of enrich_hh_details change a vacancy, build_chunks writes its chunks,
\* embed_chunks their embeddings.  A vacancy is given by the version of its
\* fields and by the number of chunks chunk_text cuts its document into;
\* the text of a chunk by vacancy, version and chunk_no.
\* ---------------------------------------------------------------------
MaxVersions == 2
MaxDocChunks == 2

\* build_doc and chunk_text: the text of chunk i of the vacancy
DocChunk(v, ver, i) == [vacancy_id |-> v, version |-> ver, chunk_no |-> i]

\* model.embed: the embedding of a text
Embed(text) == [of |-> text]

\* fetch_hh upserts the vacancy again, or enrich_hh_details sets its
\* description: the document of the vacancy changes
UpsertVacancy ==
    /\ pipeline # None
    /\ \E v \in Vacancies, c \in 1..MaxDocChunks :
           /\ pipeline.vacancies[v].version < MaxVersions
           /\ pipeline' = [pipeline EXCEPT !.vacancies[v] =
                             [version |-> @.version + 1, chunks |-> c]]
    /\ UNCHANGED <<retrievalVars, call, result, inv, chunking, enrich>>

\* insert into vacancy_chunks ... on conflict (vacancy_id, chunk_no) do
\* update set text = excluded.text, source_url = excluded.source_url
UpsertChunk(tbl, v, i, text) ==
    IF \E r \in tbl : r.vacancy_id = v /\ r.chunk_no = i
    THEN {IF r.vacancy_id = v /\ r.chunk_no = i THEN [r EXCEPT !.text = text] ELSE r :
             r \in tbl}
    ELSE tbl \cup {[vacancy_id |-> v, chunk_no |-> i, text |-> text, embedding |-> None]}

\* for i, ch in enumerate(chunks): the upserts of chunks i..
RECURSIVE UpsertChunks(_, _, _, _)
UpsertChunks(tbl, v, doc, i) ==
    IF i >= doc.chunks THEN tbl
    ELSE UpsertChunks(UpsertChunk(tbl, v, i, DocChunk(v, doc.version, i)), v, doc, i + 1)

\* the loop of build_chunks over the vacancies v.. in the order of vacancy_id
RECURSIVE BuildFrom(_, _, _)
BuildFrom(tbl, v, rebuild) ==
    IF v > MaxVac THEN tbl
    ELSE LET kept == IF rebuild THEN {r \in tbl : r.vacancy_id # v} ELSE tbl
         IN  BuildFrom(UpsertChunks(kept, v, pipeline.vacancies[v], 0), v + 1, rebuild)

\* a run of build_chunks, with --rebuild 1 or without
BuildChunks ==
    /\ pipeline # None
    /\ \E rebuild \in BOOLEAN :
           pipeline' = [pipeline EXCEPT !.vacancy_chunks = BuildFrom(@, 1, rebuild)]
    /\ UNCHANGED <<retrievalVars, call, result, inv, chunking, enrich>>

\* a run of embed_chunks without --limit: every row "where embedding is
\* null" gets the embedding of its text
EmbedChunks ==
    /\ pipeline # None
    /\ pipeline' = [pipeline EXCEPT !.vacancy_chunks =
                      {IF r.embedding = None THEN [r EXCEPT !.embedding = Embed(r.text)] ELSE r :
                          r \in @}]
    /\ UNCHANGED <<retrievalVars, call, result, inv, chunking, enrich>>

InitPipeline ==
    /\ store = {}
    /\ pg_trgm = FALSE
    /\ pc = "idle"
    /\ req = None
    /\ scored = {}
    /\ rows = <<>>
    /\ ret = None
    /\ response = None
    /\ failure = "none"
    /\ call = None
    /\ result = None
    /\ inv = None
    /\ chunking = None
    /\ enrich = None
    /\ \E cs \in [Vacancies -> 1..MaxDocChunks] :
           pipeline = [vacancies |-> [v \in Vacancies |-> [version |-> 1, chunks |-> cs[v]]],
                       vacancy_chunks |-> {}]

NextPipeline == UpsertVacancy \/ BuildChunks \/ EmbedChunks

SpecPipeline == InitPipeline /\ [][NextPipeline]_vars

\* =====================================================================
\* Properties
\* =====================================================================
ApiDone == pc = "done" /\ req.entry = "search"
CliDone == pc = "done" /\ req.entry = "cli"

Positions(sq) == 1..Len(sq)
Returned == {ret.vac_order[i] : i \in Positions(ret.vac_order)}
PoolDocs == {r.vacancy_id : r \in scored}
PoolOf(v) == {r \in scored : r.vacancy_id = v}
RowsOf(v) == {i \in Positions(rows) : rows[i].vacancy_id = v}
IsMinScoreOf(x, S) == (\E r \in S : r.score = x) /\ (\A r \in S : x <= r.score)
IsMinDistOf(x, S) == (\E r \in S : r.dist = x) /\ (\A r \in S : x <= r.dist)
BestOf(v) == ret.vac_map[v].best_score

\* C1: each vacancy_id occurs at most once in the returned vac_order and at
\* most once in the results of /search, also when several fragments of the
\* vacancy are in the candidate pool.
C1_UniqueVacancies ==
    ApiDone =>
        /\ \A i, j \in Positions(ret.vac_order) :
               i # j => ret.vac_order[i] # ret.vac_order[j]
        /\ \A i, j \in Positions(response.results) :
               i # j => response.results[i].vacancy_id # response.results[j].vacancy_id

\* a returned vacancy with two fragments in the pool and two rows fetched
C1_Witness ==
    /\ ApiDone
    /\ \E v \in Returned : Cardinality(PoolOf(v)) >= 2 /\ Cardinality(RowsOf(v)) >= 2

\* C2: the returned documents are in non-decreasing order of best_score.
C2_SortedByBestScore ==
    ApiDone =>
        \A i \in Positions(ret.vac_order) :
            i < Len(ret.vac_order) =>
                BestOf(ret.vac_order[i]) <= BestOf(ret.vac_order[i + 1])

\* two returned documents with different best scores, the better one being
\* strictly farther by distance than every fragment of the other
C2_Witness ==
    /\ ApiDone
    /\ Len(ret.vac_order) >= 2
    /\ BestOf(ret.vac_order[1]) < BestOf(ret.vac_order[2])
    /\ \A x \in PoolOf(ret.vac_order[1]) :
           \A y \in PoolOf(ret.vac_order[2]) : x.dist > y.dist

\* C3: every evidence list holds at most per_vac fragments, in non-decreasing
\* order of their own score, with rank_in_vacancy 1, 2, ... without gaps,
\* also when the rows of documents of equal best_score arrive interleaved.
C3_EvidenceCappedAndSorted ==
    ApiDone =>
        \A v \in DOMAIN ret.vac_map :
            LET ev == ret.vac_map[v].evidence IN
            /\ Len(ev) <= req.per_vac
            /\ \A i \in Positions(ev) :
                   /\ ev[i].rank_in_vacancy = i
                   /\ i < Len(ev) => ev[i].score <= ev[i + 1].score

\* rows of two documents of equal best_score interleaved: v, u, v
C3_Witness ==
    /\ ApiDone
    /\ Len(rows) >= 3
    /\ rows[1].vacancy_id = rows[3].vacancy_id
    /\ rows[1].vacancy_id # rows[2].vacancy_id
    /\ rows[1].best_score = rows[2].best_score
    /\ rows[1].score < rows[3].score
    /\ Len(ret.vac_map[rows[1].vacancy_id].evidence) = 2

\* C4: best_score of a returned document is the minimum score over all its
\* fragments in the candidate pool (those cut by the per-document cap
\* included) and, when per_vac >= 1, the score of its first evidence fragment.
C4_BestScoreIsPoolMinimum ==
    ApiDone =>
        \A v \in DOMAIN ret.vac_map :
            /\ IsMinScoreOf(BestOf(v), PoolOf(v))
            /\ req.per_vac >= 1 =>
                   /\ Len(ret.vac_map[v].evidence) >= 1
                   /\ ret.vac_map[v].evidence[1].score = BestOf(v)

\* a returned document with a pool fragment cut by the cap, score not minimal
C4_Witness ==
    /\ ApiDone
    /\ \E v \in Returned :
           /\ Len(ret.vac_map[v].evidence) = 1
           /\ \E r \in PoolOf(v) : r.score > BestOf(v)

\* C5: at most k documents are returned, they are the documents of the pool
\* with the lowest best score (no omitted document has a strictly lower best
\* score than a returned one), and every evidence fragment belongs to the
\* returned document that lists it.
C5_TopKByBestScore ==
    ApiDone =>
        /\ Len(ret.vac_order) <= req.k
        /\ DOMAIN ret.vac_map = Returned
        /\ Returned \subseteq PoolDocs
        /\ req.per_vac >= 1 =>
               Len(ret.vac_order) = Min2(req.k, Cardinality(PoolDocs))
        /\ \A v \in Returned : \A d \in PoolDocs \ Returned :
               \A x \in PoolOf(d) : BestOf(v) <= x.score
        /\ \A v \in Returned :
               \A i \in Positions(ret.vac_map[v].evidence) :
                   \E r \in PoolOf(v) :
                       /\ r.chunk_no = ret.vac_map[v].evidence[i].chunk_no
                       /\ r.score = ret.vac_map[v].evidence[i].score
                       /\ r.dist = ret.vac_map[v].evidence[i].dist

\* an omitted document owns a fragment that scores better than a returned
\* evidence fragment
C5_Witness ==
    /\ ApiDone
    /\ \E v \in Returned, d \in PoolDocs \ Returned :
           \E x \in PoolOf(d) :
               \E i \in Positions(ret.vac_map[v].evidence) :
                   x.score < ret.vac_map[v].evidence[i].score

\* C6: when the caller's weight is 0 or pg_trgm is absent, the score of
\* every returned evidence fragment equals its distance and every best_score
\* is the minimum distance of the document's pool fragments (API and console).
C6_DistanceOnly ==
    (pc = "done" /\ (req.kw_weight = 0 \/ ~pg_trgm)) =>
        \A v \in DOMAIN ret.vac_map :
            /\ IsMinDistOf(BestOf(v), PoolOf(v))
            /\ \A i \in Positions(ret.vac_map[v].evidence) :
                   ret.vac_map[v].evidence[i].score = ret.vac_map[v].evidence[i].dist

\* the console tool runs the trigram query with weight 0: a fragment with a
\* positive similarity and a positive distance is returned
C6_Witness ==
    /\ CliDone
    /\ pg_trgm
    /\ req.kw_weight = 0
    /\ \E v \in Returned :
           \E i \in Positions(ret.vac_map[v].evidence) :
               /\ ret.vac_map[v].evidence[i].kw_sim > 0
               /\ ret.vac_map[v].evidence[i].dist > 0

\* C7: when pg_trgm is absent the weight is forced to 0 whatever the caller
\* supplied, and /search reports hybrid_used = false and kw_weight_used = 0.
C7_WeightForcedToZero ==
    (ApiDone /\ ~pg_trgm) =>
        /\ ret.kw_weight = 0
        /\ response.hybrid_used = FALSE
        /\ response.kw_weight_used = 0

\* pg_trgm absent, the caller asked for a positive weight, fragments returned
C7_Witness ==
    /\ ApiDone
    /\ ~pg_trgm
    /\ req.kw_weight > 0
    /\ Len(response.results) >= 1

\* C10: with an empty candidate pool (no chunk with an embedding, or
\* candidates = 0) the request ends without error, vac_order and results empty.
C10_EmptyPool ==
    (pc # "idle" /\ req.entry = "search"
        /\ (req.candidates = 0 \/ \A c \in store : ~c.embedded)) =>
        /\ pc = "done"
        /\ scored = {}
        /\ ret.vac_order = <<>>
        /\ response.results = <<>>

\* chunks are stored but none has an embedding; k and per_vac positive
C10_Witness ==
    /\ ApiDone
    /\ store # {}
    /\ \A c \in store : ~c.embedded
    /\ req.candidates > 0 /\ req.k > 0 /\ req.per_vac > 0
    /\ response.results = <<>>

\* C8: two calls with the same query and options against an unchanged store
\* return the same output, documents and evidence in the same order, also
\* when best scores or fragment scores are equal.
C8_Idempotent ==
    [][(pc = "done" /\ pc' = "done" /\ req.entry = "search" /\ req' = req)
          => (ret' = ret /\ response' = response)]_vars

MinDistOf(v) == CHOOSE x \in {r.dist : r \in PoolOf(v)} : IsMinDistOf(x, PoolOf(v))

C11_NonPositiveCapEmpties ==
    (pc # "idle" /\ req.candidates >= 0 /\ (req.k <= 0 \/ req.per_vac <= 0))
        => (pc = "done" /\ ret.vac_order = <<>>)

\* C12: when the embedding call, the pg_trgm probe or the query raises, the
\* request ends as a failure: no result list and no response exist, and it
\* is not turned into a served request with an empty result.
C12_FailurePropagates ==
    failure # "none" => (pc = "failed" /\ ret = None /\ response = None)

\* a probe failure over a store that holds an embedded chunk
C12_Witness ==
    /\ pc = "failed"
    /\ failure = "probe"
    /\ req.k > 0 /\ req.per_vac > 0 /\ req.candidates > 0
    /\ \E c \in store : c.embedded

\* ---------------------------------------------------------------------
\* Properties of the text utilities
\* ---------------------------------------------------------------------
Called(fn) == call # None /\ result # None /\ call.fn = fn
NotMarker(c) == c \notin {"[", "]"}
StripMarkers(s) == SelectSeq(s, NotMarker)

\* C13: the formatted text of an evidence fragment, its highlight markers
\* removed, is the normalized source text truncated to max_quote (with "..."
\* when the normalized text was longer).  The source texts explored hold no
\* bracket of their own.
C13_MarkersRemovedGiveSource ==
    Called("search") =>
        StripMarkers(result.out.value) = Truncate(NormalizeWs(call.text), call.max_quote)

Contains(s, sub) ==
    \E i \in 1..Len(s) : i + Len(sub) - 1 <= Len(s) /\ SubSeq(s, i, i + Len(sub) - 1) = sub
SpringBootDeveloper ==
    <<"S", "p", "r", "i", "n", "g", " ", "B", "o", "o", "t", " ", "d", "e", "v", "e", "l", "o", "p", "e", "r">>
SpringBoot == <<"s", "p", "r", "i", "n", "g", " ", "b", "o", "o", "t">>
Spring == <<"s", "p", "r", "i", "n", "g">>

\* C14: for a text containing "Spring Boot developer", extract_tech_terms
\* yields "spring boot" exactly once and no separate "spring".
C14_SpringBootOnly ==
    (Called("extract_tech_terms") /\ Contains(OrEmpty(call.text), SpringBootDeveloper))
        => /\ ~result.out.raised
           /\ Count(result.out.value, SpringBoot) = 1
           /\ Count(result.out.value, Spring) = 0

\* a "[" inside an open marker
RECURSIVE Nested(_, _)
Nested(s, depth) ==
    IF s = <<>> THEN FALSE
    ELSE IF Head(s) = "[" THEN depth >= 1 \/ Nested(Tail(s), depth + 1)
    ELSE IF Head(s) = "]" THEN Nested(Tail(s), depth - 1)
    ELSE Nested(Tail(s), depth)

\* kw stands in s from position i, between "[" and "]"
WrappedAt(s, i, kw) ==
    /\ i + Len(kw) + 1 <= Len(s)
    /\ s[i] = "["
    /\ \A j \in 1..Len(kw) : LowerChar(s[i + j]) = LowerChar(kw[j])
    /\ s[i + Len(kw) + 1] = "]"

\* C15: with "spring" and "spring boot" both in the keyword list and
\* "spring boot" occurring in the text, the output wraps the occurrence as
\* one unit and holds no marker inside a marker.
C15_LongerTermOneUnit ==
    (/\ Called("highlight")
     /\ \E i, j \in 1..Len(call.keywords) :
            call.keywords[i] = Spring /\ call.keywords[j] = SpringBoot
     /\ ReSearch(call.text, SpringBoot))
        => /\ \E i \in 1..Len(result.out.value) : WrappedAt(result.out.value, i, SpringBoot)
           /\ ~Nested(result.out.value, 0)

\* the tokens of the query of the call, and the rank of a token among them
QueryTokens == FindTokens(Lower(OrEmpty(call.query)), <<>>)
FirstAt(tokens, w) == CHOOSE i \in 1..Len(tokens) : tokens[i] = w /\ \A j \in 1..(i - 1) : tokens[j] # w
Before(tokens, v, w) ==
    \/ Count(tokens, v) > Count(tokens, w)
    \/ Count(tokens, v) = Count(tokens, w) /\ FirstAt(tokens, v) < FirstAt(tokens, w)
Eligible(w, module) ==
    /\ Len(w) >= 3
    /\ w = Lower(w)
    /\ w \notin (IF module = "api" THEN StopWords ELSE CliStopWords)

\* C16: for a query text, extract_query_keywords(query, N) of either module
\* returns at most N distinct tokens of the query, each lowercase, of 3 or
\* more characters and no stopword, by descending frequency and, for equal
\* frequency, by first occurrence; a token left out ranks after all returned.
C16_KeywordsRanked ==
    (Called("extract_query_keywords") /\ ~call.query.none) =>
        LET out == result.out.value
            toks == QueryTokens
        IN  /\ ~result.out.raised
            /\ Len(out) <= call.max_words
            /\ \A i \in 1..Len(out) :
                   /\ Count(toks, out[i]) >= 1
                   /\ Eligible(out[i], result.module)
            /\ \A i, j \in 1..Len(out) : i < j => Before(toks, out[i], out[j])
            /\ \A n \in 1..Len(toks) :
                   (Eligible(toks[n], result.module) /\ Count(out, toks[n]) = 0)
                       => /\ Len(out) = call.max_words
                          /\ \A i \in 1..Len(out) : Before(toks, out[i], toks[n])

\* the more frequent token comes first although it occurs later, and the
\* query holds a capital letter
C16_Witness ==
    /\ Called("extract_query_keywords")
    /\ ~call.query.none
    /\ call.query.s # Lower(call.query.s)
    /\ Len(result.out.value) = 2
    /\ Count(QueryTokens, result.out.value[1]) = 2
    /\ Count(QueryTokens, result.out.value[2]) = 1
    /\ FirstAt(QueryTokens, result.out.value[2]) < FirstAt(QueryTokens, result.out.value[1])

\* C17: for an empty or None text, extract_query_keywords and
\* extract_tech_terms of both modules return an empty list and do not raise.
C17_EmptyTextEmptyTerms ==
    /\ (Called("extract_query_keywords") /\ OrEmpty(call.query) = <<>>)
           => (~result.out.raised /\ result.out.value = <<>>)
    /\ (Called("extract_tech_terms") /\ OrEmpty(call.text) = <<>>)
           => (~result.out.raised /\ result.out.value = <<>>)

PatternsOf(term) == {i \in 1..Len(TECH_PATTERNS) : TechTerms[i] = term}
SqlGoSql == <<"s", "q", "l", " ", "g", "o", " ", "s", "q", "l">>
Sql == <<"s", "q", "l">>
Go == <<"g", "o">>

\* C18: extract_tech_terms of either module returns, for every pattern of
\* TECH_PATTERNS that matches the text, its term once, and nothing else, in
\* the order of TECH_PATTERNS.
C18_TermsOncePatternOrder ==
    Called("extract_tech_terms") =>
        LET out == result.out.value
            t == Lower(OrEmpty(call.text))
        IN  /\ ~result.out.raised
            /\ \A i \in 1..Len(TECH_PATTERNS) :
                   Count(out, TechTerms[i]) = (IF ReSearch(t, TechLiterals[i]) THEN 1 ELSE 0)
            /\ \A a \in 1..Len(out) : PatternsOf(out[a]) # {}
            /\ \A a, b \in 1..Len(out) :
                   a < b => \A i \in PatternsOf(out[a]), j \in PatternsOf(out[b]) : i < j

\* "sql" twice and before "go" in the text, "go" before "sql" in the result
C18_Witness ==
    /\ Called("extract_tech_terms")
    /\ call.text = Str(SqlGoSql)
    /\ result.out.value = <<Go, Sql>>

\* ---------------------------------------------------------------------
\* Properties of the reported similarity and metadata
\* ---------------------------------------------------------------------
EvidenceOf(v) == {ret.vac_map[v].evidence[i] : i \in Positions(ret.vac_map[v].evidence)}

\* C19: in the API and in the console tool, when pg_trgm is absent or the
\* caller's weight is 0, every returned evidence fragment reports kw_sim = 0.
C19_KwSimZeroWhenUnused ==
    (pc = "done" /\ (~pg_trgm \/ req.kw_weight = 0)) =>
        \A v \in DOMAIN ret.vac_map : \A e \in EvidenceOf(v) : e.kw_sim = 0

\* the trigram query ran and its weight parameter was not 0
LexicalUsed ==
    IF req.entry = "search"
    THEN ApiHybrid(pg_trgm, req.kw_weight) /\ WeightUsed(pg_trgm, req.kw_weight) # 0
    ELSE CliHybrid(pg_trgm, req.kw_weight) /\ WeightUsed(pg_trgm, req.kw_weight) # 0

\* C20: for every caller weight, hybrid_used (the "vector + trgm" label of
\* the console) is true exactly when the similarity entered the score with
\* a weight other than 0; when it is false every returned score equals its
\* distance and /search reports kw_weight_used = 0.
C20_MetadataTellsUse ==
    pc = "done" =>
        /\ response.hybrid_used <=> LexicalUsed
        /\ ~response.hybrid_used =>
               /\ \A v \in DOMAIN ret.vac_map : \A e \in EvidenceOf(v) : e.score = e.dist
               /\ req.entry = "search" => response.kw_weight_used = 0

\* ---------------------------------------------------------------------
\* Evidence truncation
\* ---------------------------------------------------------------------
Ellipsis == <<".", ".", ".">>

\* the texts the truncation of an evidence fragment starts from: the
\* normalized text, highlighted when highlighting is on
BeforeTruncation ==
    IF call.do_highlight THEN Highlight(NormalizeWs(call.text), result.keywords)
    ELSE {NormalizeWs(call.text)}

\* C21: the text of an evidence fragment is the normalized and (when enabled)
\* highlighted text itself when that has at most max_quote characters, and
\* otherwise its first max_quote characters followed by "..."; it never has
\* more than max_quote + 3 characters.
C21_TruncatedAfterHighlight ==
    Called("search") =>
        /\ \E h \in BeforeTruncation :
              result.out.value =
                  (IF Len(h) <= call.max_quote THEN h
                   ELSE SubSeq(h, 1, call.max_quote) \o Ellipsis)
        /\ Len(result.out.value) <= call.max_quote + 3

\* a highlighted fragment cut inside the highlighted text
C21_Witness ==
    /\ Called("search")
    /\ call.do_highlight
    /\ call.max_quote > 0
    /\ Len(result.out.value) = call.max_quote + 3
    /\ Head(result.out.value) = "["
    /\ Len(NormalizeWs(call.text)) <= call.max_quote
    /\ SubSeq(result.out.value, call.max_quote + 1, call.max_quote + 3) = Ellipsis

\* ---------------------------------------------------------------------
\* Highlighting of keywords with "+", "#" or "."
\* ---------------------------------------------------------------------
\* the characters of a word as the keyword extraction sees words
IsKeywordChar(c) == c \in TokenChars \cup {"_"}

\* kw occurs in s from position i on as a word of its own, in any casing
StandaloneAt(s, i, kw) ==
    /\ i + Len(kw) - 1 <= Len(s)
    /\ \A j \in 1..Len(kw) : LowerChar(s[i + j - 1]) = LowerChar(kw[j])
    /\ (i = 1 \/ ~IsKeywordChar(s[i - 1]))
    /\ (i + Len(kw) > Len(s) \/ ~IsKeywordChar(s[i + Len(kw)]))

\* s from position i on with every standalone occurrence of kw in brackets
RECURSIVE WrapStandalone(_, _, _)
WrapStandalone(s, i, kw) ==
    IF i > Len(s) THEN <<>>
    ELSE IF StandaloneAt(s, i, kw)
         THEN <<"[">> \o SubSeq(s, i, i + Len(kw) - 1) \o <<"]">>
                  \o WrapStandalone(s, i + Len(kw), kw)
         ELSE <<s[i]>> \o WrapStandalone(s, i + 1, kw)

\* extract_query_keywords can return kw
IsQueryKeyword(kw) == ExtractQueryKeywords(Str(kw), CallerMaxWords).value = <<kw>>

\* C22: for a keyword extract_query_keywords can produce, tokens with "+",
\* "#" or "." included, highlight puts every standalone occurrence of it, in
\* any casing, in square brackets, keeps the casing of the text, and wraps
\* nothing that is part of a longer word.
C22_StandaloneOccurrencesWrapped ==
    (/\ Called("highlight")
     /\ Len(call.keywords) = 1
     /\ IsQueryKeyword(call.keywords[1]))
        => result.out.value = WrapStandalone(call.text, 1, call.keywords[1])

\* ---------------------------------------------------------------------
\* The explanation of /ask
\* ---------------------------------------------------------------------
PatternNumbers == [i \in 1..Len(TECH_PATTERNS) |-> i]
FirstOf(sq, n) == SubSeq(sq, 1, IF Len(sq) < n THEN Len(sq) ELSE n)

\* the lowercased evidence texts of the document, joined by spaces
JoinedEvidence == Lower(JoinTexts(call.evidence))

\* the keywords of the query that are substrings of the joined evidence
KeywordsOccurring ==
    LET Occurs(kw) == Contains(JoinedEvidence, kw)
    IN  SelectSeq(result.keywords, Occurs)

\* the terms whose literal is a substring of the joined evidence
TermsBySubstring ==
    LET Occurs(i) == Contains(JoinedEvidence, TechLiterals[i])
        hits == SelectSeq(PatternNumbers, Occurs)
    IN  [a \in 1..Len(hits) |-> TechTerms[hits[a]]]

\* the terms whose literal occurs in the joined evidence as whole words
TermsByWord ==
    LET Occurs(i) == ReSearch(JoinedEvidence, TechLiterals[i])
        hits == SelectSeq(PatternNumbers, Occurs)
    IN  [a \in 1..Len(hits) |-> TechTerms[hits[a]]]

\* why with the given items: a block without items is left out
WhyOf(kws, terms) ==
    (IF kws # <<>> THEN <<[type |-> "query_match", items |-> kws]>> ELSE <<>>)
    \o (IF terms # <<>> THEN <<[type |-> "tech_terms", items |-> terms]>> ELSE <<>>)

\* C23: in /ask the query_match items of a document are the query keywords
\* that are case-insensitive substrings of its joined evidence texts, in
\* keyword order, at most 10; the tech_terms items are the technology terms
\* that occur in it by the same substring test, at most 12; a block without
\* items is omitted.
C23_WhyBySubstring ==
    Called("ask") =>
        result.out.value = WhyOf(FirstOf(KeywordsOccurring, 10), FirstOf(TermsBySubstring, 12))

\* C23 as the code has it: the tech_terms items are the terms of the
\* patterns that match the joined evidence between word boundaries, in
\* pattern order, at most 12; query_match and the omission as stated.
C23_WhyByWord ==
    Called("ask") =>
        result.out.value = WhyOf(FirstOf(KeywordsOccurring, 10), FirstOf(TermsByWord, 12))

\* twelve keywords of which more than ten occur, thirteen terms found;
\* both blocks are cut
C23_Witness ==
    /\ Called("ask")
    /\ Len(result.keywords) = 12
    /\ Len(KeywordsOccurring) > 10
    /\ Len(TermsByWord) > 12
    /\ Len(result.out.value) = 2
    /\ Len(result.out.value[1].items) = 10
    /\ Len(result.out.value[2].items) = 12

\* ---------------------------------------------------------------------
\* Requests served at the same time
\* ---------------------------------------------------------------------
\* what the request returns when it is served alone over the store
AloneResponses(rq) ==
    {ConcResponse(rq, RetrieveVacancies(qr, pg_trgm, rq.kw_weight)) :
        qr \in {x \in QueryResults(store, ApiHybrid(pg_trgm, rq.kw_weight),
                                    WeightUsed(pg_trgm, rq.kw_weight),
                                    rq.candidates, rq.k, rq.per_vac) : ~x.error}}

C25_WaitEnds ==
    (pc \in {"embedding", "querying"}) ~> (pc \in {"done", "failed"})

\* ---------------------------------------------------------------------
\* Properties of enrich_hh_details
\* ---------------------------------------------------------------------
\* the responses after which fetch_json_with_retries is over
FinalResponses == {"ok", "empty", "not_found", "captcha"}

\* the call returned because the attempts were used up
Exhausted == enrich.pc = "got" /\ enrich.seen \cap FinalResponses = {}

\* C26: fetch_json_with_retries returns (None, "rate_limited") when the
\* attempts are used up by HTTP 429 answers, (None, "not_found") on a 404,
\* (None, "http_error") for every other failure after the retries, and
\* (json, None) on success.
C26_TagsAsDocumented ==
    (enrich # None /\ enrich.pc = "got") =>
        /\ "not_found" \in enrich.seen => enrich.out = Pair("none", "not_found")
        /\ "ok" \in enrich.seen => enrich.out = Pair("vacancy", "none")
        /\ (Exhausted /\ enrich.seen = {"too_many"}) => enrich.out = Pair("none", "rate_limited")
        /\ (Exhausted /\ "too_many" \notin enrich.seen) => enrich.out = Pair("none", "http_error")

\* C29: whatever the server answers and however the network fails,
\* fetch_json_with_retries sends at most retries + 1 requests, one per pass
\* of its loop, and ends with a (json, tag) pair or with CaptchaRequired; it
\* sends nothing after a 404, a success or a captcha_required answer.
C29_BoundedRequests ==
    enrich # None =>
        /\ enrich.requests <= enrich.retries + 1
        /\ enrich.pc = "get" =>
              /\ enrich.attempt = enrich.requests
              /\ enrich.seen \cap FinalResponses = {}
        /\ enrich.pc = "got" =>
              /\ ~enrich.out.raised
              /\ enrich.out.tag \in {"none", "not_found", "rate_limited", "http_error"}
              /\ Exhausted => enrich.requests = enrich.retries + 1
        /\ enrich.pc = "stopped" =>
              /\ enrich.out = CaptchaRequired
              /\ "captcha" \in enrich.seen

\* every attempt used, on a 429, a 5xx and a network failure
C29_Witness ==
    /\ enrich # None
    /\ Exhausted
    /\ enrich.retries = MaxRetries
    /\ enrich.requests = MaxRetries + 1
    /\ {"too_many", "server_error", "exception"} \subseteq enrich.seen

Uncommitted == enrich.executed - enrich.committed

C30_RunState ==
    enrich # None =>
        /\ \A i \in DOMAIN enrich.fetched : enrich.fetched[i] <= 1
        /\ Uncommitted < enrich.commit_every
        /\ enrich.pc \in {"done", "stopped"} => Uncommitted = 0

C30_NothingSentAfterCaptcha ==
    (enrich # None /\ enrich.pc = "stopped") => (enrich'.sent = enrich.sent /\ enrich'.pc = "stopped")

C28_ChunkTextReturns == <>(chunking.pc = "returned")

\* ---------------------------------------------------------------------
\* Properties of the tables
\* ---------------------------------------------------------------------
\* C27: after any sequence of runs of the scripts, every row of
\* vacancy_chunks with an embedding holds the embedding of the text it has
\* now.
C27_EmbeddingOfCurrentText ==
    pipeline # None =>
        \A r \in pipeline.vacancy_chunks :
            r.embedding # None => r.embedding = Embed(r.text)

====
